---- MODULE Spec2Model ----
(***************************************************************************)
(* Model of maya/generate_semantics.py: the "Extract Semantics Tool".      *)
(* One run of generateSemantics: read the dialog fields, set up xDiv/yDiv, *)
(* then per frame build the block grid, assign every mesh to the blocks    *)
(* its projected bounding box maps to, and write one text file per         *)
(* non-empty block.                                                        *)
(*                                                                         *)
(* Conventions.  Text is a sequence of characters/tokens.  Screen          *)
(* coordinates are exact dyadic fractions n/Den, held as the integer n.    *)
(* Python floats that are quotients of integers are held as <<num, den>>.  *)
(* Python lists are TLA+ sequences; a Python index i is position i+1.      *)
(***************************************************************************)
EXTENDS Integers, Sequences, FiniteSets, TLC

\* ------------------------------------------------------------------ bounds
MaxFrame  == 2      \* largest end-frame typed into the dialog
MaxBorder == 2      \* largest border typed into the dialog
MaxDim    == 2      \* largest block dimension typed into the dialog
Den       == 16     \* screen coordinates are multiples of 1/Den
MaxPasses == 2      \* passes over one frame that are followed (step 0 never leaves it)

\* ------------------------------------------------------- the host's inputs
\* Render resolutions <<width, height>> of defaultResolution.
Resolutions == { <<2, 2>>, <<4, 4>>, <<5, 6>>, <<0, 4>>, <<4, 0>> }

\* Names of the mesh transforms of the scene, in cmds.ls() order.
MeshNames == << "pCube1", "pSphere1" >>

\* Projected extent <<lo, hi>> (in 1/Den) of a bounding box on one axis.
ShapeList ==
  << [sx |-> <<1, 3>>,    sy |-> <<1, 3>>],      \* small, top-left
     [sx |-> <<10, 14>>,  sy |-> <<10, 14>>],    \* small, bottom-right
     [sx |-> <<-6, -2>>,  sy |-> <<10, 14>>],    \* wholly left of the view
     [sx |-> <<18, 22>>,  sy |-> <<1, 3>>],      \* wholly right of the view
     [sx |-> <<1, 3>>,    sy |-> <<-6, -2>>],    \* wholly above the view
     [sx |-> <<10, 14>>,  sy |-> <<18, 22>>] >>  \* wholly below the view

Shapes == { ShapeList[n] : n \in 1..Len(ShapeList) }

\* Scenes of no, one or two meshes.  Of two scenes that differ only in which
\* of the two meshes has which shape, one is kept.
Scenes ==
  { sc \in UNION { [1..n -> Shapes] : n \in 0..Len(MeshNames) } :
      \A m \in 1..Len(sc) : \A n \in m..Len(sc) :
        \E a \in 1..Len(ShapeList) : \E b \in a..Len(ShapeList) :
          sc[m] = ShapeList[a] /\ sc[n] = ShapeList[b] }

\* ---------------------------------------------------- text <-> integers
DigitChars == << "0", "1", "2", "3", "4", "5", "6", "7", "8", "9" >>

DigitVal(c) == CHOOSE d \in 0..9 : DigitChars[d + 1] = c

RECURSIVE NatOf(_)
NatOf(s) == IF s = << >> THEN 0
            ELSE 10 * NatOf(SubSeq(s, 1, Len(s) - 1)) + DigitVal(s[Len(s)])

\* Python int(text) of a decimal literal with an optional leading minus.
IntOf(s) == IF s # << >> /\ Head(s) = "-" THEN 0 - NatOf(Tail(s)) ELSE NatOf(s)

RECURSIVE Digits(_)
Digits(n) == IF n < 10 THEN << DigitChars[n + 1] >>
             ELSE Digits(n \div 10) \o << DigitChars[(n % 10) + 1] >>

RECURSIVE ZeroPad(_, _)
ZeroPad(s, w) == IF Len(s) >= w THEN s ELSE ZeroPad(<< "0" >> \o s, w)

\* Python '{:03d}'.format(n): sign, then zeros up to a total width of 3.
Format03d(n) == IF n < 0 THEN << "-" >> \o ZeroPad(Digits(0 - n), 2)
                ELSE ZeroPad(Digits(n), 3)

Str(n) == IF n < 0 THEN << "-" >> \o Digits(0 - n) ELSE Digits(n)

\* Python int(num/den) of a float quotient: truncation toward zero.
Abs(a) == IF a < 0 THEN 0 - a ELSE a
IntOfQuotient(num, den) ==
  LET q == Abs(num) \div Abs(den)
  IN  IF (num < 0) # (den < 0) THEN 0 - q ELSE q

\* Python range(n) has max(n, 0) elements.
RangeLen(n) == IF n < 0 THEN 0 ELSE n

\* ---------------------------------------------------------------- state
VARIABLES
  fields,          \* the five dialog text fields
  resolution,      \* defaultResolution.width / .height of the host
  scene,           \* host scene: projected extents of each mesh, cmds.ls() order
  pc,              \* position in generateSemantics
  err,             \* the exception that ended the run, "" when none
  startTime, endTime, stepTime, border, dim,   \* parsed fields
  currTime,        \* frame being processed
  hostTime,        \* the host's current-time cursor
  xDiv, yDiv,      \* float(res)/blockDim as <<num, den>>
  meshes,          \* names returned by collectObjects
  blocks,          \* the grid of block rectangles of the current frame
  blockToMeshMap,  \* per block, the meshes assigned to it
  k,               \* position (1-based) of the next mesh to assign
  accessed,        \* the raw <<i, j>> indices assignment used in this frame
  entered,         \* frames for which 'Processing frame' was printed
  dirs,            \* output directories that exist
  files,           \* output files: path -> text, as a set of records
  writes           \* every open(blockPath, 'w') of the run, with the block's screenPoint

vars == << fields, resolution, scene, pc, err, startTime, endTime, stepTime,
           border, dim, currTime, hostTime, xDiv, yDiv, meshes, blocks,
           blockToMeshMap, k, accessed, entered, dirs, files, writes >>

StartFields  == { << >>, << "2" >> }
EndFields    == { << >>, Str(MaxFrame) }
StepFields   == { << >>, << "0" >>, << "2" >> }
BorderFields == { << >> } \cup { Str(n) : n \in 1..MaxBorder }
DimFields    == { << >> } \cup { Str(n) : n \in -1..MaxDim }

Init ==
  /\ fields \in [ startTime : StartFields, endTime : EndFields,
                  stepTime : StepFields, border : BorderFields,
                  dimension : DimFields ]
  /\ resolution \in Resolutions
  /\ scene \in Scenes
  /\ pc = "ui"
  /\ err = ""
  /\ startTime = 0 /\ endTime = 0 /\ stepTime = 0 /\ border = 0 /\ dim = 0
  /\ currTime = 0
  /\ hostTime = 0
  /\ xDiv = << 0, 1 >> /\ yDiv = << 0, 1 >>
  /\ meshes = << >>
  /\ blocks = << >>
  /\ blockToMeshMap = << >>
  /\ k = 1
  /\ accessed = {}
  /\ entered = << >>
  /\ dirs = {}
  /\ files = {}
  /\ writes = {}

\* ------------------------------------------------- lines 227-262: set up
OrDefault(text, default) == IF text = << >> THEN default ELSE text

BorderText(text) ==
  IF text = << >> \/ IntOf(text) < 0 THEN << "0" >> ELSE text

collectObjects(sc) == [ n \in 1..Len(sc) |-> MeshNames[n] ]

Setup ==
  /\ pc = "ui"
  /\ LET d == IntOf(OrDefault(fields.dimension, << "6", "4" >>))
         s == IntOf(OrDefault(fields.startTime, << "1" >>))
     IN  /\ startTime' = s
         /\ endTime'   = IntOf(OrDefault(fields.endTime, << "1" >>))
         /\ stepTime'  = IntOf(OrDefault(fields.stepTime, << "1" >>))
         /\ border'    = IntOf(BorderText(fields.border))
         /\ dim'       = d
         /\ hostTime'  = s
         /\ currTime'  = s
         /\ IF d = 0
            THEN /\ pc' = "error"
                 /\ err' = "ZeroDivisionError"
                 /\ UNCHANGED << xDiv, yDiv, meshes >>
            ELSE /\ pc' = "loop"
                 /\ err' = ""
                 /\ xDiv' = << resolution[1], d >>
                 /\ yDiv' = << resolution[2], d >>
                 /\ meshes' = collectObjects(scene)
  /\ UNCHANGED << fields, resolution, scene, blocks, blockToMeshMap, k,
                  accessed, entered, dirs, files, writes >>

\* ------------------------------------------- lines 268-287: set up blocks
\* blocks[h][w] = [[left, right], [top, bottom]] with left = w / xDiv etc.;
\* w / (W/dim) is the fraction (w * dim) / W, kept as <<num, den>>.
BlockRect(h, w, xd, yd) ==
  [ left   |-> << w * xd[2], xd[1] >>,
    right  |-> << (w + 1) * xd[2], xd[1] >>,
    top    |-> << h * yd[2], yd[1] >>,
    bottom |-> << (h + 1) * yd[2], yd[1] >> ]

BuildBlocks(xd, yd) ==
  [ h \in 1..RangeLen(IntOfQuotient(yd[1], yd[2])) |->
      [ w \in 1..RangeLen(IntOfQuotient(xd[1], xd[2])) |->
          BlockRect(h - 1, w - 1, xd, yd) ] ]

EmptyMap(xd, yd) ==
  [ h \in 1..RangeLen(IntOfQuotient(yd[1], yd[2])) |->
      [ w \in 1..RangeLen(IntOfQuotient(xd[1], xd[2])) |-> << >> ] ]

\* How often 'Processing frame' was printed for this frame.
Passes(frame) == Cardinality({ n \in 1..Len(entered) : entered[n] = frame })

\* Line 265, loop test true, and lines 266-287.
BeginFrame ==
  /\ pc = "loop"
  /\ currTime <= endTime
  /\ Passes(currTime) < MaxPasses
  /\ entered' = Append(entered, currTime)
  /\ blocks' = BuildBlocks(xDiv, yDiv)
  /\ blockToMeshMap' = EmptyMap(xDiv, yDiv)
  /\ accessed' = {}
  /\ k' = 1
  /\ pc' = "assign"
  /\ UNCHANGED << fields, resolution, scene, err, startTime, endTime, stepTime,
                  border, dim, currTime, hostTime, xDiv, yDiv, meshes, dirs,
                  files, writes >>

\* Line 265, loop test false: generateSemantics returns.
Finish ==
  /\ pc = "loop"
  /\ currTime > endTime
  /\ pc' = "done"
  /\ UNCHANGED << fields, resolution, scene, err, startTime, endTime, stepTime,
                  border, dim, currTime, hostTime, xDiv, yDiv, meshes, blocks,
                  blockToMeshMap, k, accessed, entered, dirs, files, writes >>

\* ------------------------------- lines 294-328: projected screen bounds
\* Lines 299-306: the 8 corners of bb = [xmin ymin zmin xmax ymax zmax], each
\* as the positions of bb it takes its x, y and z from.
bbPoints ==
  << << 0, 1, 2 >>, << 0, 1, 5 >>, << 0, 4, 2 >>, << 0, 4, 5 >>,
     << 3, 1, 2 >>, << 3, 1, 5 >>, << 3, 4, 2 >>, << 3, 4, 5 >> >>

\* Lines 25-51 for a camera looking along the z axis: the corner's screen x
\* comes from the box's x side, its screen y from the box's y side; line 49
\* flips y, so the box's ymin is the larger screen y.
worldSpaceToScreenSpace(shape, p) ==
  << IF p[1] = 0 THEN shape.sx[1] ELSE shape.sx[2],
     IF p[2] = 1 THEN shape.sy[2] ELSE shape.sy[1] >>

\* Lines 309-319.
RECURSIVE OverallBounds(_, _, _, _)
OverallBounds(shape, pts, n, acc) ==
  IF n > Len(pts) THEN acc
  ELSE LET P == worldSpaceToScreenSpace(shape, pts[n])
       IN  OverallBounds(shape, pts, n + 1,
             [ left   |-> IF acc.left > P[1] THEN P[1] ELSE acc.left,
               right  |-> IF acc.right < P[1] THEN P[1] ELSE acc.right,
               top    |-> IF acc.top > P[2] THEN P[2] ELSE acc.top,
               bottom |-> IF acc.bottom < P[2] THEN P[2] ELSE acc.bottom ])

\* Lines 321-328.
ClampBounds(b) ==
  [ left   |-> IF b.left < 0 \/ b.left >= Den THEN 0 ELSE b.left,
    right  |-> IF b.right > Den \/ b.right <= 0 THEN Den ELSE b.right,
    top    |-> IF b.top < 0 \/ b.top >= Den THEN 0 ELSE b.top,
    bottom |-> IF b.bottom > Den \/ b.bottom <= 0 THEN Den ELSE b.bottom ]

ScreenBounds(shape) ==
  ClampBounds(OverallBounds(shape, bbPoints, 1,
     [ left |-> Den, right |-> 0, top |-> Den, bottom |-> 0 ]))

\* ------------------------------------ lines 331-339: bounds to indices
UpperClamp(v, n) == IF v > n - 1 THEN n - 1 ELSE v

\* bounds = [colMin, colMax, rowMin, rowMax] for a grid of rows x cols.
IndexBounds(sb, rows, cols, b) ==
  << UpperClamp(IntOfQuotient(sb.left * cols, Den) - b, cols),
     UpperClamp(IntOfQuotient(sb.right * cols, Den) + 1 + b, cols),
     UpperClamp(IntOfQuotient(sb.top * rows, Den) - b, rows),
     UpperClamp(IntOfQuotient(sb.bottom * rows, Den) + 1 + b, rows) >>

\* ------------------------------------- lines 342-350: the assignment loop
\* Python list indexing: -n <= i < n is valid, a negative i counts from the end.
ValidIndex(i, n) == (0 - n) <= i /\ i < n
ListPos(i, n) == IF i < 0 THEN i + n + 1 ELSE i + 1

\* Line 343-350 for one i: for j in range(bounds[0], bounds[1] + 1):
\* blockToMeshMap[i][j].append(mesh) (the list is never None, so line 350
\* runs).  acc.ok turns FALSE at the first IndexError.
RECURSIVE AssignRow(_, _, _, _, _)
AssignRow(acc, mesh, i, j, jmax) ==
  IF j > jmax THEN acc
  ELSE LET used == [ acc EXCEPT !.idx = @ \cup { << i, j >> } ]
       IN  IF ~ ValidIndex(i, Len(acc.map))
           THEN [ used EXCEPT !.ok = FALSE ]
           ELSE LET r == ListPos(i, Len(acc.map))
                IN  IF ~ ValidIndex(j, Len(acc.map[r]))
                    THEN [ used EXCEPT !.ok = FALSE ]
                    ELSE LET c == ListPos(j, Len(acc.map[r]))
                         IN  AssignRow(
                               [ used EXCEPT !.map[r][c] = Append(@, mesh) ],
                               mesh, i, j + 1, jmax)

\* Line 342: for i in range(bounds[2], bounds[3] + 1).
RECURSIVE AssignLoop(_, _, _, _)
AssignLoop(acc, mesh, i, bounds) ==
  IF i > bounds[4] THEN acc
  ELSE LET row == AssignRow(acc, mesh, i, bounds[1], bounds[2])
       IN  IF row.ok THEN AssignLoop(row, mesh, i + 1, bounds) ELSE row

\* Lines 292-350 for one mesh.  len(blocks[0]) raises IndexError on a grid
\* without rows.
AssignOne(map, idx, grid, mesh, shape, b) ==
  IF Len(grid) = 0
  THEN [ map |-> map, idx |-> idx, ok |-> FALSE ]
  ELSE LET bounds == IndexBounds(ScreenBounds(shape), Len(grid), Len(grid[1]), b)
       IN  AssignLoop([ map |-> map, idx |-> idx, ok |-> TRUE ],
                      mesh, bounds[3], bounds)

AssignMesh ==
  /\ pc = "assign"
  /\ k <= Len(meshes)
  /\ LET res == AssignOne(blockToMeshMap, accessed, blocks, meshes[k], scene[k], border)
     IN  /\ blockToMeshMap' = res.map
         /\ accessed' = res.idx
         /\ IF res.ok
            THEN /\ k' = k + 1
                 /\ UNCHANGED << pc, err >>
            ELSE /\ pc' = "error"
                 /\ err' = "IndexError"
                 /\ UNCHANGED k
  /\ UNCHANGED << fields, resolution, scene, startTime, endTime, stepTime,
                  border, dim, currTime, hostTime, xDiv, yDiv, meshes, blocks,
                  entered, dirs, files, writes >>

\* --------------------------------- lines 145-170: extractSemantics
\* One character (or indivisible run of characters) of output text.
Tok(kind, mesh, vx, vy) == [ kind |-> kind, mesh |-> mesh, vx |-> vx, vy |-> vy ]
NameTok(mesh) == Tok("name", mesh, 0, 0)          \* the mesh's name
Lit(text)     == Tok(text, "", 0, 0)              \* literal text
\* '{:06d}'.format(int(d * 1e6)), d the distance from the mesh's position to
\* the world point the host returns for view pixel (vx, vy).
DistTok(mesh, vx, vy) == Tok("dist", mesh, vx, vy)

\* Line 359: screenPoint = blockDim[1] * (i + 0.5), blockDim[0] * (j + 0.5),
\* each component kept as <<num, 2>>.
ScreenPoint(i, j, blockDim) ==
  << << blockDim[2] * (2 * i + 1), 2 >>, << blockDim[1] * (2 * j + 1), 2 >> >>

\* Lines 14-21: viewToWorld(int(screenPoint[0]), int(screenPoint[1]), ...);
\* the world position is the host's image of that view pixel (x, y).
screenSpaceToWorldSpace(screenPoint) ==
  [ x |-> IntOfQuotient(screenPoint[1][1], screenPoint[1][2]),
    y |-> IntOfQuotient(screenPoint[2][1], screenPoint[2][2]) ]

\* Line 167: '{} with dist {:06d}'.format(mesh, int(d * 1e6)).
Caption(mesh, worldPoint) ==
  << NameTok(mesh), Lit(" with dist "), DistTok(mesh, worldPoint.x, worldPoint.y) >>

\* A list with one single-caption list per mesh (lines 146-170).
extractSemantics(meshesInBlock, screenPoint) ==
  [ n \in 1..Len(meshesInBlock) |->
      << Caption(meshesInBlock[n], screenSpaceToWorldSpace(screenPoint)) >> ]

\* ------------------------------------------ lines 364-375: the file text
\* Python sep.join(parts).
RECURSIVE Join(_, _)
Join(sep, parts) ==
  IF parts = << >> THEN << >>
  ELSE IF Len(parts) = 1 THEN parts[1]
  ELSE parts[1] \o sep \o Join(sep, Tail(parts))

\* Iterating a string yields its characters.
Chars(text) == [ n \in 1..Len(text) |-> << text[n] >> ]

\* Lines 369-374: for k, caption in enumerate(row): write(prefix.join(caption)).
RECURSIVE JoinedRow(_, _)
JoinedRow(row, n) ==
  IF n > Len(row) THEN << >>
  ELSE Join(IF n > 1 THEN << Lit(" and ") >> ELSE << >>, Chars(row[n]))
         \o JoinedRow(row, n + 1)

\* Lines 366-375 for one row of semantics.
RowText(row) ==
  (IF Len(row) <= 1 THEN Join(<< >>, row) ELSE JoinedRow(row, 1)) \o << Lit("\n") >>

\* Lines 365-375: everything written to one block file.
RECURSIVE FileText(_)
FileText(semantics) ==
  IF semantics = << >> THEN << >>
  ELSE RowText(Head(semantics)) \o FileText(Tail(semantics))

\* ------------------------------------- lines 353-375: write the frame
\* Variant of line 357 that drops the test: every block gets a file.
ShouldWriteAlways(meshesInBlock) == TRUE

\* Line 357: if meshesInBlock.
ShouldWrite(meshesInBlock) == meshesInBlock # << >>

\* Variant of line 363 that leaves out the row stride: int(i + j + 1).
FileIndexNoStride(i, j, xd) == i + j + 1

\* Line 363: '{:03d}.txt'.format(int(i * xDiv + j + 1)).
FileIndex(i, j, xd) == IntOfQuotient(i * xd[1] + (j + 1) * xd[2], xd[2])

\* Lines 353 and 363.
BlockPath(frame, i, j, xd) ==
  [ dir |-> Format03d(frame), file |-> Format03d(FileIndex(i, j, xd)) ]

\* Variant of line 364 that opens the file for appending: open(path, 'a').
WriteFileAppend(fs, path, text) ==
  { f \in fs : f.path # path } \cup
    { [ path |-> path,
        text |-> IF \E f \in fs : f.path = path
                 THEN (CHOOSE f \in fs : f.path = path).text \o text
                 ELSE text ] }

\* open(path, 'w') ... write: the file holds exactly the new text.
WriteFile(fs, path, text) ==
  { f \in fs : f.path # path } \cup { [ path |-> path, text |-> text ] }

\* Lines 356-375: enumerate the blocks of row i.
RECURSIVE WriteRow(_, _, _, _, _, _, _)
WriteRow(out, data, i, j, frame, xd, blockDim) ==
  IF j >= Len(data) THEN out
  ELSE LET meshesInBlock == data[j + 1]
           path == BlockPath(frame, i, j, xd)
           screenPoint == ScreenPoint(i, j, blockDim)
           text == FileText(extractSemantics(meshesInBlock, screenPoint))
       IN  IF ShouldWrite(meshesInBlock)
           THEN WriteRow(
                  [ files  |-> WriteFile(out.files, path, text),
                    writes |-> out.writes \cup
                                 { [ frame |-> frame, i |-> i, j |-> j, path |-> path,
                                     screenPoint |-> screenPoint ] } ],
                  data, i, j + 1, frame, xd, blockDim)
           ELSE WriteRow(out, data, i, j + 1, frame, xd, blockDim)

\* Line 355: enumerate the rows; a row's writes are done before the next row.
RECURSIVE WriteLoop(_, _, _, _, _, _)
WriteLoop(out, map, i, frame, xd, blockDim) ==
  IF i >= Len(map) THEN out
  ELSE CHOOSE res \in { WriteLoop(rowOut, map, i + 1, frame, xd, blockDim) :
                          rowOut \in { WriteRow(out, map[i + 1], i, 0, frame, xd, blockDim) } } :
         TRUE

\* Lines 194-197.
make_dir(ds, path) == IF path \notin ds THEN ds \cup { path } ELSE ds

\* Lines 352-375, reached when the loop over the meshes (line 292) is done.
WriteFrame ==
  /\ pc = "assign"
  /\ k > Len(meshes)
  /\ LET out == WriteLoop([ files |-> files, writes |-> writes ], blockToMeshMap,
                          0, currTime, xDiv, << dim, dim >>)
     IN  /\ files' = out.files
         /\ writes' = out.writes
  /\ dirs' = make_dir(dirs, Format03d(currTime))
  /\ pc' = "next"
  /\ UNCHANGED << fields, resolution, scene, err, startTime, endTime, stepTime,
                  border, dim, currTime, hostTime, xDiv, yDiv, meshes, blocks,
                  blockToMeshMap, k, accessed, entered >>

\* Lines 377-379.
NextFrame ==
  /\ pc = "next"
  /\ hostTime' = currTime + stepTime
  /\ currTime' = currTime + stepTime
  /\ pc' = "loop"
  /\ UNCHANGED << fields, resolution, scene, err, startTime, endTime, stepTime,
                  border, dim, xDiv, yDiv, meshes, blocks, blockToMeshMap, k,
                  accessed, entered, dirs, files, writes >>

Next == Setup \/ BeginFrame \/ Finish \/ AssignMesh \/ WriteFrame \/ NextFrame

Spec == Init /\ [][Next]_vars

\* ====================================================== properties
NumRows == Len(blockToMeshMap)
NumCols == IF NumRows = 0 THEN 0 ELSE Len(blockToMeshMap[1])

\* The grid of the current frame exists.
GridBuilt == pc \in { "assign", "next" }

\* Every mesh of the current frame went through lines 292-350.
AssignmentDone == (pc = "assign" /\ k > Len(meshes)) \/ pc = "next"

\* The output of the current frame is on disk (lines 352-375 are done).
FrameWritten == pc = "next"

\* Equality of fractions <<num, den>> with den > 0.
FracEq(a, b) == a[1] * b[2] = b[1] * a[2]

Occurrences(list, x) == Cardinality({ n \in 1..Len(list) : list[n] = x })

\* The list names every object it holds once.
Distinct(list) == \A x \in { list[n] : n \in 1..Len(list) } : Occurrences(list, x) = 1

\* The cells (0-based <<row, col>>) of a map whose list contains mesh.
CellsHolding(map, mesh) ==
  { rc \in (0..(Len(map) - 1)) \X (0..(NumCols - 1)) :
      Occurrences(map[rc[1] + 1][rc[2] + 1], mesh) > 0 }

\* bounds = [colMin, colMax, rowMin, rowMax] of mesh n under border b.
BoundsOf(n, b) == IndexBounds(ScreenBounds(scene[n]), NumRows, NumCols, b)

\* ---------------------------------------------------------------- C1
\* C1: for positive W, H and dim giving at least one row and column, the grid
\* of a frame has floor(H/dim) rows of floor(W/dim) cells that tile the unit
\* square: first left = 0, first top = 0, neighbours abut, last right = 1 and
\* last bottom = 1 -- also when the resolution is no multiple of dim.
C1_GridTilesUnitSquare ==
  ( /\ GridBuilt
    /\ resolution[1] > 0 /\ resolution[2] > 0 /\ dim > 0
    /\ resolution[1] \div dim >= 1 /\ resolution[2] \div dim >= 1 )
  => /\ Len(blocks) = resolution[2] \div dim
     /\ \A h \in 1..Len(blocks) :
          /\ Len(blocks[h]) = resolution[1] \div dim
          /\ \A w \in 1..Len(blocks[h]) :
               LET b == blocks[h][w]
               IN  /\ (w = 1) => b.left[1] = 0
                   /\ (h = 1) => b.top[1] = 0
                   /\ (w < Len(blocks[h])) => FracEq(b.right, blocks[h][w + 1].left)
                   /\ (h < Len(blocks)) => FracEq(b.bottom, blocks[h + 1][w].top)
                   /\ (w = Len(blocks[h])) => FracEq(b.right, << 1, 1 >>)
                   /\ (h = Len(blocks)) => FracEq(b.bottom, << 1, 1 >>)

\* ---------------------------------------------------------------- C2
\* The single line the claim expects for a cell: the captions of its meshes,
\* in assignment order, joined by " and ", then one newline.
JoinedLine(meshesInBlock, i, j) ==
  Join(<< Lit(" and ") >>,
       [ n \in 1..Len(meshesInBlock) |->
           Caption(meshesInBlock[n],
                   screenSpaceToWorldSpace(ScreenPoint(i, j, << dim, dim >>))) ])
    \o << Lit("\n") >>

\* C2: the text written for every non-empty cell of a processed frame is one
\* line: the per-object captions in assignment order joined by " and " and
\* followed by one newline (the lone caption when the cell holds one object).
\* Stated for the cells that hold n different objects.
C2_CaptionsJoinedOnOneLine ==
  FrameWritten =>
    \A i \in 0..(NumRows - 1) : \A j \in 0..(NumCols - 1) :
      LET meshesInBlock == blockToMeshMap[i + 1][j + 1]
      IN  (meshesInBlock # << >> /\ Distinct(meshesInBlock)) =>
            \E f \in files :
              /\ f.path = BlockPath(currTime, i, j, xDiv)
              /\ f.text = JoinedLine(meshesInBlock, i, j)

\* ---------------------------------------------------------------- C3
\* C3: every cell file is named by the 1-based raster index
\* row * cols + col + 1 with cols = floor(W/dim), for every resolution.
C3_FileKeyedByRasterIndex ==
  \A w \in writes :
    w.path.file = Format03d(w.i * IntOfQuotient(resolution[1], dim) + w.j + 1)

\* ---------------------------------------------------------------- C4
\* C4: after block assignment, for every border >= 0, no cell's list holds
\* the same object more than once.
C4_NoDuplicateInCell ==
  AssignmentDone =>
    \A i \in 1..NumRows : \A j \in 1..NumCols :
      \A n \in 1..Len(meshes) : Occurrences(blockToMeshMap[i][j], meshes[n]) <= 1

\* ---------------------------------------------------------------- C5
\* C5: for every border >= 0, every cell (row, col) holding object m lies in
\* the index range the bounds mapping gives for m:
\* rowMin <= row <= rowMax and colMin <= col <= colMax.
C5_AssignedCellInsideRange ==
  AssignmentDone =>
    \A n \in 1..Len(meshes) :
      \A rc \in CellsHolding(blockToMeshMap, meshes[n]) :
        /\ BoundsOf(n, border)[3] <= rc[1] /\ rc[1] <= BoundsOf(n, border)[4]
        /\ BoundsOf(n, border)[1] <= rc[2] /\ rc[2] <= BoundsOf(n, border)[2]

\* ---------------------------------------------------------------- C6
\* Lines 292-350 for mesh n alone on the empty grid of this frame, border b.
AloneWithBorder(n, b) ==
  AssignOne(EmptyMap(xDiv, yDiv), {}, blocks, meshes[n], scene[n], b)

\* C6: on every grid with at least one row and column, assignment with
\* border = 2 completes, and records each object in at least as many distinct
\* cells as assignment with border = 0 does.
C6_BorderMonotone ==
  ((GridBuilt \/ err = "IndexError") /\ NumRows >= 1 /\ NumCols >= 1) =>
    /\ (border = 2) => err # "IndexError"
    /\ \A n \in 1..Len(meshes) :
         AloneWithBorder(n, 2).ok =>
           Cardinality(CellsHolding(AloneWithBorder(n, 0).map, meshes[n]))
             <= Cardinality(CellsHolding(AloneWithBorder(n, 2).map, meshes[n]))

\* ---------------------------------------------------------------- C7
\* All 8 projected corners of mesh n lie off the same side of the x axis / y axis.
Corner(n, c) == worldSpaceToScreenSpace(scene[n], bbPoints[c])
AllOffX(n) == \/ \A c \in 1..8 : Corner(n, c)[1] < 0
              \/ \A c \in 1..8 : Corner(n, c)[1] > Den
AllOffY(n) == \/ \A c \in 1..8 : Corner(n, c)[2] < 0
              \/ \A c \in 1..8 : Corner(n, c)[2] > Den

\* The index ranges of the claim: full axis for an object wholly off one side
\* (border 0), and never empty for any border.
RangesAsClaimed(n) ==
  /\ AllOffX(n) => BoundsOf(n, 0)[1] = 0 /\ BoundsOf(n, 0)[2] = NumCols - 1
  /\ AllOffY(n) => BoundsOf(n, 0)[3] = 0 /\ BoundsOf(n, 0)[4] = NumRows - 1
  /\ \A b \in 0..MaxBorder :
       /\ BoundsOf(n, b)[1] <= BoundsOf(n, b)[2]
       /\ BoundsOf(n, b)[3] <= BoundsOf(n, b)[4]

\* Lines 292-350 ran for mesh n in this frame: to the end, or to the IndexError.
Attempted(n) == n < k \/ (n = k /\ err = "IndexError")

\* C7: an object wholly off one side of a screen axis gets the full axis as
\* its border-0 range; for every border >= 0 no range is empty; so every
\* object is recorded in at least one cell.
C7_ClampFallbackRecordsEveryObject ==
  ((GridBuilt \/ err = "IndexError") /\ NumRows >= 1 /\ NumCols >= 1) =>
    \A n \in 1..Len(meshes) :
      /\ RangesAsClaimed(n)
      /\ Attempted(n) => CellsHolding(blockToMeshMap, meshes[n]) # {}

\* The part of C7 that is about the ranges alone.
C7_RangesHold ==
  (GridBuilt /\ NumRows >= 1 /\ NumCols >= 1) =>
    \A n \in 1..Len(meshes) : RangesAsClaimed(n)

\* ---------------------------------------------------------------- C8
WrittenFor(frame, i, j) ==
  \E w \in writes : w.frame = frame /\ w.i = i /\ w.j = j

\* C8: in every processed frame a cell file is written for cell (row, col)
\* if and only if the cell's list is non-empty after assignment; every file on
\* disk belongs to such a write, so empty cells have no file.
C8_FileIffCellNonEmpty ==
  /\ FrameWritten =>
       \A i \in 0..(NumRows - 1) : \A j \in 0..(NumCols - 1) :
         WrittenFor(currTime, i, j) <=> blockToMeshMap[i + 1][j + 1] # << >>
  /\ \A w \in writes : \E f \in files : f.path = w.path /\ f.text # << >>
  /\ \A f \in files : \E w \in writes : w.path = f.path

\* A processed frame with a file for a non-empty cell next to an empty cell.
C8_Witness ==
  /\ FrameWritten
  /\ \E i \in 0..(NumRows - 1) : \E j \in 0..(NumCols - 1) :
       blockToMeshMap[i + 1][j + 1] # << >> /\ WrittenFor(currTime, i, j)
  /\ \E i \in 0..(NumRows - 1) : \E j \in 0..(NumCols - 1) :
       blockToMeshMap[i + 1][j + 1] = << >> /\ ~ WrittenFor(currTime, i, j)

\* ---------------------------------------------------------------- C9
\* C9: with step >= 1 no frame is processed twice and no two distinct
\* (frame, row, col) triples write the same output file: cells of one frame
\* get distinct file indices, frames get distinct directories.
C9_OneWriterPerFile ==
  (pc # "ui" /\ stepTime >= 1) =>
    /\ \A a, b \in 1..Len(entered) : entered[a] = entered[b] => a = b
    /\ \A w1, w2 \in writes :
         w1.path = w2.path => (w1.frame = w2.frame /\ w1.i = w2.i /\ w1.j = w2.j)
    /\ \A w1, w2 \in writes : w1.path.dir = w2.path.dir <=> w1.frame = w2.frame

\* Two processed frames, and two cells in different rows of one frame, at a
\* width that is no multiple of the block dimension.
C9_Witness ==
  /\ dim > 0
  /\ resolution[1] % dim # 0
  /\ \E w1, w2 \in writes : w1.frame # w2.frame
  /\ \E w1, w2 \in writes : w1.frame = w2.frame /\ w1.i # w2.i /\ w1.j # w2.j

\* ---------------------------------------------------------------- C10
\* C10: with block dimension <= 0 or resolution width or height <= 0 the run
\* fails before any frame processing: no frame is entered, no output
\* directory is created, no cell file is written.
C10_BadConfigurationFailsFirst ==
  (pc # "ui" /\ (dim <= 0 \/ resolution[1] <= 0 \/ resolution[2] <= 0)) =>
    /\ pc # "done"
    /\ entered = << >>
    /\ dirs = {}
    /\ files = {}

\* ---------------------------------------------------------------- C11
\* C11: processing a frame again with the same objects, camera, resolution,
\* block dimension and border leaves the same set of output files with the
\* same contents: each file is overwritten with the text it had, and no file
\* or directory is added or removed.
C11_ReprocessingChangesNothing ==
  [][ (pc = "assign" /\ pc' = "next" /\ Passes(currTime) >= 2)
        => (files' = files /\ dirs' = dirs /\ writes' = writes) ]_vars

\* A frame with output files has been written a second time.
C11_Witness ==
  /\ FrameWritten
  /\ Passes(currTime) >= 2
  /\ \E f \in files : f.path.dir = Format03d(currTime)

\* ---------------------------------------------------------------- C12
\* The view pixel (x, y) that screenSpaceToWorldSpace hands to viewToWorld
\* for the screenPoint of a write.
SamplePixel(w) == screenSpaceToWorldSpace(w.screenPoint)

\* C12: for every non-empty cell (row, col) the sample point handed to the
\* unprojection has x = blockWidth * (col + 0.5), taken from the column index,
\* and y = blockHeight * (row + 0.5), taken from the row index (both as the
\* whole pixel that int() leaves).
C12_SamplePointXFromColumn ==
  \A w \in writes :
    /\ SamplePixel(w).x = IntOfQuotient(dim * (2 * w.j + 1), 2)
    /\ SamplePixel(w).y = IntOfQuotient(dim * (2 * w.i + 1), 2)

\* ---------------------------------------------------------------- C13
\* The clamped screen rectangle sb (in 1/Den) and the cell rect share area.
Overlaps(sb, rect) ==
  /\ sb.left * rect.right[2] < rect.right[1] * Den
  /\ sb.right * rect.left[2] > rect.left[1] * Den
  /\ sb.top * rect.bottom[2] < rect.bottom[1] * Den
  /\ sb.bottom * rect.top[2] > rect.top[1] * Den

\* They share at least a boundary point.
Touches(sb, rect) ==
  /\ sb.left * rect.right[2] <= rect.right[1] * Den
  /\ sb.right * rect.left[2] >= rect.left[1] * Den
  /\ sb.top * rect.bottom[2] <= rect.bottom[1] * Den
  /\ sb.bottom * rect.top[2] >= rect.top[1] * Den

\* The resolution is a positive multiple of the block dimension on both axes.
GridTiles ==
  /\ dim > 0
  /\ resolution[1] >= dim /\ resolution[1] % dim = 0
  /\ resolution[2] >= dim /\ resolution[2] % dim = 0

\* C13: with border = 0 an object is recorded exactly in the cells its
\* clamped projected rectangle overlaps: in every cell it shares area with,
\* and in no cell it does not even touch.  An object strictly inside one cell
\* is therefore recorded in that cell and no other.
C13_RecordedExactlyWhereOverlapping ==
  (border = 0 /\ AssignmentDone /\ GridTiles) =>
    \A n \in 1..Len(meshes) :
      \A rc \in (0..(NumRows - 1)) \X (0..(NumCols - 1)) :
        LET sb   == ScreenBounds(scene[n])
            rect == blocks[rc[1] + 1][rc[2] + 1]
            held == rc \in CellsHolding(blockToMeshMap, meshes[n])
        IN  /\ Overlaps(sb, rect) => held
            /\ held => Touches(sb, rect)

\* ---------------------------------------------------------------- C14
\* C14: for every border >= 0 and every grid with at least one row and one
\* column, every index pair (row, col) the assignment uses on blockToMeshMap
\* satisfies 0 <= row <= rows - 1 and 0 <= col <= cols - 1, so no assignment
\* raises IndexError and no cell is addressed through a negative index.
C14_IndicesWithinGrid ==
  ((GridBuilt \/ err = "IndexError") /\ border >= 0 /\ NumRows >= 1 /\ NumCols >= 1) =>
    /\ err # "IndexError"
    /\ \A rc \in accessed :
         /\ 0 <= rc[1] /\ rc[1] <= NumRows - 1
         /\ 0 <= rc[2] /\ rc[2] <= NumCols - 1

\* ---------------------------------------------------------------- C15
\* The frames start, start + step, ... <= end, for step >= 1.
ExpectedCount ==
  IF startTime > endTime THEN 0 ELSE ((endTime - startTime) \div stepTime) + 1
ExpectedFrames == [ n \in 1..ExpectedCount |-> startTime + (n - 1) * stepTime ]

\* The frame loop of line 265 was reached.
LoopReached ==
  pc \in { "loop", "assign", "next", "done" } \/ (pc = "error" /\ err = "IndexError")

\* The run is over: generateSemantics returned or raised.
RunEnded == pc \in { "done", "error" }

\* Frames are entered in the expected order, none twice, none skipped.
EnteredInOrder ==
  /\ Len(entered) <= ExpectedCount
  /\ \A n \in 1..Len(entered) : entered[n] = ExpectedFrames[n]

\* After assignment each cell holds a mesh as often as assigning that mesh
\* alone to an empty map of this frame puts it there: nothing is left over
\* from an earlier frame.
NoCarryOver ==
  AssignmentDone =>
    \A n \in 1..Len(meshes) : \A r \in 1..NumRows : \A c \in 1..NumCols :
      Occurrences(blockToMeshMap[r][c], meshes[n])
        = Occurrences(AloneWithBorder(n, border).map[r][c], meshes[n])

\* C15: for every start, end and step >= 1 the frame loop terminates having
\* processed exactly the frames start, start + step, ... <= end, each once and
\* in increasing order (none when start > end), and the per-cell lists of a
\* frame hold nothing assigned in an earlier frame.  Stated for resolutions
\* that are a positive multiple of the block dimension.
C15_EveryFrameProcessedOnce ==
  (LoopReached /\ stepTime >= 1 /\ GridTiles) =>
    /\ EnteredInOrder
    /\ NoCarryOver
    /\ RunEnded => entered = ExpectedFrames

\* What holds of the loop control by itself: the order of the frames, the
\* fresh lists, and the full sequence whenever the loop test ends the run.
C15_LoopControlHolds ==
  (LoopReached /\ stepTime >= 1) =>
    /\ EnteredInOrder
    /\ NoCarryOver
    /\ pc = "done" =>
         /\ entered = ExpectedFrames
         /\ \A n \in 1..ExpectedCount : Format03d(ExpectedFrames[n]) \in dirs
====
